---- MODULE Spec2Model ----
(***************************************************************************)
(* Lab request/response workflow of lab-demo-js: authenticate, create      *)
(* Patient + ServiceRequest in one batch, create the Observations and the   *)
(* DiagnosticReport in a second batch, read the report back and read its    *)
(* results in a third batch.  The remote FHIR server is the environment.    *)
(***************************************************************************)
EXTENDS Naturals, Integers, Sequences, FiniteSets, TLC

\* ------------------------------------------------------------------ bounds
MaxRuns == 2        \* times the program is started against the same server (SpecRerun)
MaxTokens == 2      \* distinct access tokens the token endpoint hands out
MaxResults == 2     \* longest result list of a DiagnosticReport the server returns
MaxRejected == 1    \* entries of one batch the server may reject on its own

\* ------------------------------------------------------------ value space
\* Every identifier-like JavaScript value is a pair <<tag, n>>, so that any two
\* of them can be compared: "Patient/3" is <<"Patient", 3>>, 'urn:uuid:' + u is
\* <<"urn:uuid:", u>>, the collection name 'Patient' is <<"Patient", 0>>.
Undef == <<"undefined", 0>>
Null == <<"null", 0>>

Programs == {"part_000", "index_1", "index_2"}

ResourceTypes == {"Patient", "ServiceRequest", "Observation", "DiagnosticReport",
                  "Organization", "Practitioner", "Specimen"}

labClia == 123456789
practitionerNpi == 999999999

Urn(uuid) == <<"urn:uuid:", uuid>>
IsLocal(ref) == ref[1] = "urn:uuid:"
IsPermanent(ref) == ref[1] \in ResourceTypes /\ ref[2] > 0
Collection(type) == <<type, 0>>
IfNoneExist(value) == <<"identifier=", value>>
Bearer(token) == <<"Bearer", token>>

NoResource == [resourceType |-> "undefined", identifier |-> <<>>, refs |-> <<>>]

CreateEntry(fullUrl, url, cond, type, identifier, refs) ==
    [fullUrl |-> fullUrl,
     request |-> [method |-> "POST", url |-> Collection(url), ifNoneExist |-> cond],
     resource |-> [resourceType |-> type, identifier |-> identifier, refs |-> refs]]

ReadEntry(ref) ==
    [fullUrl |-> Undef,
     request |-> [method |-> "GET", url |-> ref, ifNoneExist |-> Undef],
     resource |-> NoResource]

\* --------------------------------------------------------- JSON.stringify
\* A property whose value is undefined is left out of the serialized body.
RECURSIVE DropUndefined(_)
DropUndefined(refs) ==
    IF refs = <<>> THEN <<>>
    ELSE IF Head(refs)[2] = Undef THEN DropUndefined(Tail(refs))
         ELSE <<Head(refs)>> \o DropUndefined(Tail(refs))

StringifyEntry(e) ==
    [e EXCEPT !.resource.refs = DropUndefined(e.resource.refs)]

Stringify(entries) == [i \in DOMAIN entries |-> StringifyEntry(entries[i])]

\* ------------------------------------------------------------ batch bodies
\* (mutants of ServiceRequestBundle: the subject names another local id; the
\* Patient carries another identifier than the one ifNoneExist searches for)
ServiceRequestBundle_OtherSubject(patientUrn, exampleMrn) ==
    << CreateEntry(patientUrn, "Patient", IfNoneExist(exampleMrn), "Patient",
                   <<exampleMrn>>, <<>>),
       CreateEntry(Undef, "ServiceRequest", Undef, "ServiceRequest",
                   <<>>, << <<"subject", Urn(exampleMrn)>> >>) >>

ServiceRequestBundle_OtherIdentifier(patientUrn, exampleMrn) ==
    << CreateEntry(patientUrn, "Patient", IfNoneExist(exampleMrn), "Patient",
                   <<patientUrn[2]>>, <<>>),
       CreateEntry(Undef, "ServiceRequest", Undef, "ServiceRequest",
                   <<>>, << <<"subject", patientUrn>> >>) >>

\* createServiceRequest: conditional Patient create + ServiceRequest create.
ServiceRequestBundle(patientUrn, exampleMrn) ==
    << CreateEntry(patientUrn, "Patient", IfNoneExist(exampleMrn), "Patient",
                   <<exampleMrn>>, <<>>),
       CreateEntry(Undef, "ServiceRequest", Undef, "ServiceRequest",
                   <<>>, << <<"subject", patientUrn>> >>) >>

\* createReport of part_000: two Observations and the DiagnosticReport.
ReportBundleA(patientId, serviceRequestId, observtionUrn1, observtionUrn2) ==
    << CreateEntry(observtionUrn1, "Observation", Undef, "Observation", <<>>,
                   << <<"basedOn", serviceRequestId>>, <<"subject", patientId>> >>),
       CreateEntry(observtionUrn2, "Observation", Undef, "Observation", <<>>,
                   << <<"basedOn", serviceRequestId>>, <<"subject", patientId>> >>),
       CreateEntry(Undef, "DiagnosticReport", Undef, "DiagnosticReport", <<>>,
                   << <<"basedOn", serviceRequestId>>, <<"subject", patientId>>,
                      <<"result", observtionUrn1>>, <<"result", observtionUrn2>> >>) >>

\* createReport of index.js: lab, practitioner, specimen, Observation, report.
ReportBundleB(patientId, serviceRequestId, labUrn, practitionerUrn, specimenUrn, observtionUrn) ==
    << CreateEntry(labUrn, "Organizaiton", IfNoneExist(labClia), "Organization",
                   <<labClia>>, <<>>),
       CreateEntry(practitionerUrn, "Practitioner", IfNoneExist(practitionerNpi),
                   "Practitioner", <<practitionerNpi>>, <<>>),
       CreateEntry(specimenUrn, "Specimen", Undef, "Specimen", <<>>,
                   << <<"request", serviceRequestId>>, <<"subject", patientId>> >>),
       CreateEntry(observtionUrn, "Observation", Undef, "Observation", <<>>,
                   << <<"basedOn", serviceRequestId>>, <<"subject", patientId>>,
                      <<"specimen", specimenUrn>> >>),
       CreateEntry(Undef, "DiagnosticReport", Undef, "DiagnosticReport", <<>>,
                   << <<"basedOn", serviceRequestId>>, <<"subject", patientId>>,
                      <<"specimen", specimenUrn>>,
                      <<"resultsInterpreter", practitionerUrn>>,
                      <<"result", observtionUrn>> >>) >>

\* (mutant of ReadBackBundle: the entries come out in reverse)
ReadBackBundle_Reversed(result) ==
    [i \in DOMAIN result |-> ReadEntry(result[Len(result) + 1 - i])]

\* readResults: report.result.map(result => ({request: {method: 'GET', url: result.reference}}))
ReadBackBundle(result) == [i \in DOMAIN result |-> ReadEntry(result[i])]

\* ------------------------------------------------------ the remote system
\* A stored resource is [id, resource].  The server assigns ids from nextId.
Matches(store, collection, cond) ==
    {r \in store : /\ r.resource.resourceType = collection[1]
                   /\ \E i \in DOMAIN r.resource.identifier :
                          r.resource.identifier[i] = cond[2]}

Failed == [status |-> "400", text |-> "error", location |-> Undef]
Created(id) == [status |-> "201", text |-> "Created", location |-> id]
MatchedExisting(id) == [status |-> "200", text |-> "OK", location |-> id]
ReadOk == [status |-> "200", text |-> "OK", location |-> Undef]

\* One entry of a batch: a read, a conditional create or a plain create.
ProcessEntry(e, store, nextId, reject) ==
    LET type == e.resource.resourceType
        fresh == [id |-> <<type, nextId>>, resource |-> e.resource]
        create == [store |-> store \cup {fresh}, nextId |-> nextId + 1,
                   result |-> Created(fresh.id)]
        found == Matches(store, e.request.url, e.request.ifNoneExist)
    IN  IF e.request.method = "GET"
        THEN [store |-> store, nextId |-> nextId,
              result |-> IF \E r \in store : r.id = e.request.url
                         THEN ReadOk ELSE Failed]
        ELSE IF reject \/ e.request.url[1] \notin ResourceTypes \/ e.request.url[1] # type
        THEN [store |-> store, nextId |-> nextId, result |-> Failed]
        ELSE IF e.request.ifNoneExist = Undef \/ found = {}
        THEN create
        ELSE IF Cardinality(found) = 1
        THEN [store |-> store, nextId |-> nextId,
              result |-> MatchedExisting((CHOOSE r \in found : TRUE).id)]
        ELSE [store |-> store, nextId |-> nextId, result |-> Failed]

\* The entries are processed in the server's own order; results[i] is the
\* outcome of entries[i] whatever that order was.
RECURSIVE ProcessInOrder(_, _, _, _, _, _)
ProcessInOrder(entries, order, store, nextId, rejected, results) ==
    IF order = <<>>
    THEN [store |-> store, nextId |-> nextId, results |-> results]
    ELSE LET i == Head(order)
             p == ProcessEntry(entries[i], store, nextId, i \in rejected)
         IN  ProcessInOrder(entries, Tail(order), p.store, p.nextId, rejected,
                            [results EXCEPT ![i] = p.result])

\* "urn:uuid:" marks a local id: references to it are updated to the final id
\* once it has been assigned.
ResolveLocal(ref, entries, results) ==
    IF \E i \in DOMAIN entries : /\ entries[i].fullUrl = ref
                                 /\ results[i].location # Undef
    THEN results[CHOOSE i \in DOMAIN entries : /\ entries[i].fullUrl = ref
                                               /\ results[i].location # Undef].location
    ELSE ref

ResolveResource(res, entries, results) ==
    [res EXCEPT !.refs = [k \in DOMAIN res.refs |->
         <<res.refs[k][1],
           IF IsLocal(res.refs[k][2])
           THEN ResolveLocal(res.refs[k][2], entries, results)
           ELSE res.refs[k][2]>>]]

ExecuteBatch(entries, store, nextId, order, rejected) ==
    LET p == ProcessInOrder(entries, order, store, nextId, rejected,
                            [i \in DOMAIN entries |-> Failed])
        new == p.store \ store
    IN  [store |-> store \cup
                   {[id |-> r.id,
                     resource |-> ResolveResource(r.resource, entries, p.results)]
                    : r \in new},
         nextId |-> p.nextId,
         results |-> p.results]

Forward(n) == [i \in 1..n |-> i]
Reverse(n) == [i \in 1..n |-> n + 1 - i]
Orders(n) == {Forward(n), Reverse(n)}
RejectSets(n) == {S \in SUBSET (1..n) : Cardinality(S) <= MaxRejected}

\* ------------------------------------------------- what fetch hands back
\* A response entry as the client sees it: entry.response.outcome may be
\* missing, entry.response.location may be undefined.
ResponseEntry(result, hasOutcome) ==
    [hasOutcome |-> hasOutcome, text |-> result.text, location |-> result.location]

Shaped(results, shape) ==
    IF shape = "short" /\ Len(results) > 0 THEN SubSeq(results, 1, Len(results) - 1)
    ELSE IF shape = "long" THEN Append(results, Failed)
    ELSE results

Body(results, shape, hasOutcome) ==
    [hasEntry |-> TRUE,
     entry |-> [i \in DOMAIN Shaped(results, shape) |->
                   ResponseEntry(Shaped(results, shape)[i], hasOutcome)]]

NoBundle == [hasEntry |-> FALSE, entry |-> <<>>]

Response(kind, data, store, nextId) ==
    [kind |-> kind, data |-> data, store |-> store, nextId |-> nextId]

IsToken(token) == token[1] = "token"

\* Every answer the remote side can give to one batch request: the transport
\* fails (before or after the server acted), the body does not parse, the body
\* is not a Bundle (401, 500), or it is a Bundle: well-formed for any
\* processing order and any rejected entries, or with one entry too few, one
\* too many, or entries without an outcome.
BatchResponses(req, store, nextId) ==
    LET n == Len(req.entry)
        runs == {ExecuteBatch(req.entry, store, nextId, o, rej) :
                    o \in Orders(n), rej \in RejectSets(n)}
        plain == ExecuteBatch(req.entry, store, nextId, Forward(n), {})
    IN  {Response("transport", NoBundle, store, nextId),
         Response("unparseable", NoBundle, store, nextId),
         Response("parsed", NoBundle, store, nextId)}
        \cup
        (IF IsToken(req.authorization[2])
         THEN {Response("parsed", Body(x.results, "exact", TRUE), x.store, x.nextId) :
                  x \in runs}
              \cup
              {Response("transport", NoBundle, plain.store, plain.nextId),
               Response("parsed", Body(plain.results, "short", TRUE), plain.store, plain.nextId),
               Response("parsed", Body(plain.results, "long", TRUE), plain.store, plain.nextId),
               Response("parsed", Body(plain.results, "exact", FALSE), plain.store, plain.nextId)}
         ELSE {})

\* Every answer to GET fhir/R4/<reportId>: the stored report, or a report
\* whose result list other clients have changed, or no report at all.
StoredResult(store, reportId) ==
    LET r == CHOOSE x \in store : x.id = reportId
        idx == {k \in DOMAIN r.resource.refs : r.resource.refs[k][1] = "result"}
        RECURSIVE Pick(_)
        Pick(k) == IF k > Len(r.resource.refs) THEN <<>>
                   ELSE IF k \in idx THEN <<r.resource.refs[k][2]>> \o Pick(k + 1)
                   ELSE Pick(k + 1)
    IN  Pick(1)

ResultLists(pool) ==
    UNION {[1..n -> pool] : n \in 0..MaxResults}

Report(hasResult, result) == [hasResult |-> hasResult, result |-> result]

ReadResponses(req, store) ==
    {[kind |-> "transport", data |-> Report(FALSE, <<>>)],
     [kind |-> "unparseable", data |-> Report(FALSE, <<>>)],
     [kind |-> "parsed", data |-> Report(FALSE, <<>>)]}
    \cup
    (IF IsToken(req.authorization[2]) /\ \E x \in store : x.id = req.url
     THEN {[kind |-> "parsed", data |-> Report(TRUE, StoredResult(store, req.url))]}
          \cup {[kind |-> "parsed", data |-> Report(TRUE, l)] :
                   l \in ResultLists({StoredResult(store, req.url)[k] :
                                        k \in DOMAIN StoredResult(store, req.url)})}
     ELSE {})

\* Every answer of the token endpoint.
Tokens == {<<"token", n>> : n \in 1..MaxTokens}

TokenResponses ==
    {[kind |-> "transport", ok |-> FALSE, access_token |-> Undef],
     [kind |-> "parsed", ok |-> FALSE, access_token |-> Undef],
     [kind |-> "unparseable", ok |-> TRUE, access_token |-> Undef]}
    \cup {[kind |-> "parsed", ok |-> TRUE, access_token |-> t] : t \in Tokens \cup {Undef}}

\* ------------------------------------------------------------------ state
VARIABLES
    program,             \* which of the three programs of the repository runs
    run,                 \* how many times it has been started
    pc,                  \* where main is
    error,               \* what main was rejected with
    accessToken,         \* let accessToken = null
    nextUuid,            \* source of randomUUID()
    patientId, serviceRequestId, diagnosticReportId,   \* const [...] of main
    report,              \* const report of readResults
    sent,                \* requests this run has issued, in order
    recv,                \* responses this run has received, in order
    inflight,            \* requests issued and not yet answered
    store, nextId,       \* the remote system
    history              \* the runs before this one

vars == <<program, run, pc, error, accessToken, nextUuid, patientId,
          serviceRequestId, diagnosticReportId, report, sent, recv, inflight,
          store, nextId, history>>

Request(kind, url, authorization, entry) ==
    [kind |-> kind, url |-> url, authorization |-> authorization, entry |-> entry]

\* data.entry[i] of JavaScript, i counted from 0
Has(data, i) == data.hasEntry /\ i + 1 <= Len(data.entry)
Entry(data, i) == data.entry[i + 1]

Fetch(req) ==
    /\ sent' = Append(sent, req)
    /\ inflight' = inflight \cup {req}

Receive(req, resp) ==
    /\ recv' = Append(recv, resp)
    /\ inflight' = inflight \ {req}

Throw(e) ==
    /\ pc' = "FAILED"
    /\ error' = e

\* await fetch(...) or await response.json() rejects
\* (mutant: the rejection is swallowed)
Rejects_Swallowed(r) == FALSE

Rejects(r) == r.kind # "parsed"

\* if (!response.ok) of authenticate
\* (mutant: the check is missing)
NotOk_Unchecked(r) == FALSE

NotOk(r) == ~r.ok

Init ==
    /\ program \in Programs
    /\ run = 1
    /\ pc = "INIT"
    /\ error = "none"
    /\ accessToken = Null
    /\ nextUuid = 1
    /\ patientId = Undef /\ serviceRequestId = Undef /\ diagnosticReportId = Undef
    /\ report = Report(FALSE, <<>>)
    /\ sent = <<>> /\ recv = <<>> /\ inflight = {}
    /\ store = {} /\ nextId = 1
    /\ history = <<>>

\* -------------------------------------------------------------- authenticate
authenticate_fetch ==
    /\ pc = "INIT"
    /\ Fetch(Request("token", <<"oauth2/token", 0>>, Undef, <<>>))
    /\ pc' = "AUTHENTICATING"
    /\ UNCHANGED <<program, run, error, accessToken, nextUuid, patientId,
                   serviceRequestId, diagnosticReportId, report, recv, store,
                   nextId, history>>

\* (mutant of authenticate_response: accessToken = data.access_token is missing)
authenticate_response_NoAssign ==
    /\ pc = "AUTHENTICATING"
    /\ \E r \in TokenResponses :
          /\ Receive(sent[Len(sent)], r)
          /\ IF r.kind = "transport"
             THEN Throw("FetchError")
             ELSE IF NotOk(r)
             THEN Throw("Authentication failed.")
             ELSE IF Rejects(r)
             THEN Throw("FetchError")
             ELSE pc' = "AUTHENTICATED" /\ UNCHANGED error
    /\ UNCHANGED <<program, run, accessToken, nextUuid, patientId, serviceRequestId,
                   diagnosticReportId, report, sent, store, nextId, history>>

authenticate_response ==
    /\ pc = "AUTHENTICATING"
    /\ \E r \in TokenResponses :
          /\ Receive(sent[Len(sent)], r)
          /\ IF r.kind = "transport"
             THEN Throw("FetchError") /\ UNCHANGED accessToken
             ELSE IF NotOk(r)
             THEN Throw("Authentication failed.") /\ UNCHANGED accessToken
             ELSE IF Rejects(r)
             THEN Throw("FetchError") /\ UNCHANGED accessToken
             ELSE /\ accessToken' = r.access_token
                  /\ pc' = "AUTHENTICATED"
                  /\ UNCHANGED error
    /\ UNCHANGED <<program, run, nextUuid, patientId, serviceRequestId,
                   diagnosticReportId, report, sent, store, nextId, history>>

\* ------------------------------------------------------ createServiceRequest
createServiceRequest_fetch ==
    /\ pc = "AUTHENTICATED"
    /\ LET patientUrn == Urn(nextUuid)
           exampleMrn == nextUuid + 1
       IN  Fetch(Request("batch", <<"fhir/R4/", 0>>, Bearer(accessToken),
                         Stringify(ServiceRequestBundle(patientUrn, exampleMrn))))
    /\ nextUuid' = nextUuid + 2
    /\ pc' = "BATCH1_SUBMITTED"
    /\ UNCHANGED <<program, run, error, accessToken, patientId, serviceRequestId,
                   diagnosticReportId, report, recv, store, nextId, history>>

createServiceRequest_response ==
    /\ pc = "BATCH1_SUBMITTED"
    /\ \E r \in BatchResponses(sent[Len(sent)], store, nextId) :
          /\ Receive(sent[Len(sent)], [kind |-> r.kind, data |-> r.data])
          /\ store' = r.store
          /\ nextId' = r.nextId
          /\ IF Rejects(r)
             THEN Throw("FetchError") /\ UNCHANGED <<patientId, serviceRequestId>>
             ELSE IF \/ ~Has(r.data, 0) \/ ~Entry(r.data, 0).hasOutcome
                     \/ ~Has(r.data, 1) \/ ~Entry(r.data, 1).hasOutcome
             THEN Throw("TypeError") /\ UNCHANGED <<patientId, serviceRequestId>>
             ELSE /\ patientId' = Entry(r.data, 0).location
                  /\ serviceRequestId' = Entry(r.data, 1).location
                  /\ pc' = IF program = "index_1" THEN "DONE" ELSE "BATCH1_RESOLVED"
                  /\ UNCHANGED error
    /\ UNCHANGED <<program, run, accessToken, nextUuid, diagnosticReportId,
                   report, sent, history>>

\* -------------------------------------------------------------- createReport
\* data.entry[2] in part_000, data.entry[4] in index.js
\* (mutant: data.entry[1])
ReportIndex_Off(prog) == 1

ReportIndex(prog) == IF prog = "index_2" THEN 4 ELSE 2

ReportBundle(prog, pid, sid, uuid) ==
    IF prog = "index_2"
    THEN ReportBundleB(pid, sid, Urn(uuid), Urn(uuid + 1), Urn(uuid + 2), Urn(uuid + 3))
    ELSE ReportBundleA(pid, sid, Urn(uuid), Urn(uuid + 1))

UuidsOfReport(prog) == IF prog = "index_2" THEN 4 ELSE 2

\* (mutant of createReport_fetch: main does not wait for createServiceRequest)
createReport_fetch_Unawaited ==
    /\ pc \in {"BATCH1_SUBMITTED", "BATCH1_RESOLVED"}
    /\ Fetch(Request("batch", <<"fhir/R4/", 0>>, Bearer(accessToken),
                     Stringify(ReportBundle(program, patientId, serviceRequestId,
                                            nextUuid))))
    /\ nextUuid' = nextUuid + UuidsOfReport(program)
    /\ pc' = "BATCH2_SUBMITTED"
    /\ UNCHANGED <<program, run, error, accessToken, patientId, serviceRequestId,
                   diagnosticReportId, report, recv, store, nextId, history>>

createReport_fetch ==
    /\ pc = "BATCH1_RESOLVED"
    /\ Fetch(Request("batch", <<"fhir/R4/", 0>>, Bearer(accessToken),
                     Stringify(ReportBundle(program, patientId, serviceRequestId,
                                            nextUuid))))
    /\ nextUuid' = nextUuid + UuidsOfReport(program)
    /\ pc' = "BATCH2_SUBMITTED"
    /\ UNCHANGED <<program, run, error, accessToken, patientId, serviceRequestId,
                   diagnosticReportId, report, recv, store, nextId, history>>

createReport_response ==
    /\ pc = "BATCH2_SUBMITTED"
    /\ \E r \in BatchResponses(sent[Len(sent)], store, nextId) :
          /\ Receive(sent[Len(sent)], [kind |-> r.kind, data |-> r.data])
          /\ store' = r.store
          /\ nextId' = r.nextId
          /\ IF Rejects(r)
             THEN Throw("FetchError") /\ UNCHANGED diagnosticReportId
             ELSE IF ~Has(r.data, ReportIndex(program))
             THEN Throw("TypeError") /\ UNCHANGED diagnosticReportId
             ELSE /\ diagnosticReportId' = Entry(r.data, ReportIndex(program)).location
                  /\ pc' = "BATCH2_RESOLVED"
                  /\ UNCHANGED error
    /\ UNCHANGED <<program, run, accessToken, nextUuid, patientId,
                   serviceRequestId, report, sent, history>>

\* --------------------------------------------------------------- readResults
readResults_fetch1 ==
    /\ pc = "BATCH2_RESOLVED"
    /\ Fetch(Request("read", diagnosticReportId, Bearer(accessToken), <<>>))
    /\ pc' = "READ_SUBMITTED"
    /\ UNCHANGED <<program, run, error, accessToken, nextUuid, patientId,
                   serviceRequestId, diagnosticReportId, report, recv, store,
                   nextId, history>>

readResults_response1 ==
    /\ pc = "READ_SUBMITTED"
    /\ \E r \in ReadResponses(sent[Len(sent)], store) :
          /\ Receive(sent[Len(sent)], r)
          /\ IF Rejects(r)
             THEN Throw("FetchError") /\ UNCHANGED report
             ELSE /\ report' = r.data
                  /\ pc' = "READ_RESOLVED"
                  /\ UNCHANGED error
    /\ UNCHANGED <<program, run, accessToken, nextUuid, patientId,
                   serviceRequestId, diagnosticReportId, sent, store, nextId,
                   history>>

readResults_fetch2 ==
    /\ pc = "READ_RESOLVED"
    /\ IF ~report.hasResult
       THEN Throw("TypeError") /\ UNCHANGED <<sent, inflight>>
       ELSE /\ Fetch(Request("batch", <<"fhir/R4/", 0>>, Bearer(accessToken),
                             ReadBackBundle(report.result)))
            /\ pc' = "READBACK_SUBMITTED"
            /\ UNCHANGED error
    /\ UNCHANGED <<program, run, accessToken, nextUuid, patientId,
                   serviceRequestId, diagnosticReportId, report, recv, store,
                   nextId, history>>

readResults_response2 ==
    /\ pc = "READBACK_SUBMITTED"
    /\ \E r \in BatchResponses(sent[Len(sent)], store, nextId) :
          /\ Receive(sent[Len(sent)], [kind |-> r.kind, data |-> r.data])
          /\ store' = r.store
          /\ nextId' = r.nextId
          /\ IF Rejects(r)
             THEN Throw("FetchError")
             ELSE pc' = "DONE" /\ UNCHANGED error
    /\ UNCHANGED <<program, run, accessToken, nextUuid, patientId,
                   serviceRequestId, diagnosticReportId, report, sent, history>>

\* ----------------------------------------------------------------- node again
\* The program is started again: a new process, the same remote system.
Rerun ==
    /\ pc \in {"DONE", "FAILED"}
    /\ run < MaxRuns
    /\ run' = run + 1
    /\ history' = Append(history, [sent |-> sent, recv |-> recv, pc |-> pc,
                                   error |-> error, patientId |-> patientId])
    /\ pc' = "INIT"
    /\ error' = "none"
    /\ accessToken' = Null
    /\ patientId' = Undef /\ serviceRequestId' = Undef /\ diagnosticReportId' = Undef
    /\ report' = Report(FALSE, <<>>)
    /\ sent' = <<>> /\ recv' = <<>> /\ inflight' = {}
    /\ UNCHANGED <<program, nextUuid, store, nextId>>

Next ==
    \/ authenticate_fetch
    \/ authenticate_response
    \/ createServiceRequest_fetch
    \/ createServiceRequest_response
    \/ createReport_fetch
    \/ createReport_response
    \/ readResults_fetch1
    \/ readResults_response1
    \/ readResults_fetch2
    \/ readResults_response2

Spec == Init /\ [][Next]_vars

\* The first program of index.js (authenticate, createServiceRequest) started
\* MaxRuns times against the same remote system.
InitRerun == Init /\ program = "index_1"

NextRerun ==
    \/ authenticate_fetch
    \/ authenticate_response
    \/ createServiceRequest_fetch
    \/ createServiceRequest_response
    \/ Rerun

SpecRerun == InitRerun /\ [][NextRerun]_vars

\* The first batch of createServiceRequest submitted MaxSubmits times, with the
\* same local id and the same MRN, to a remote system that already holds
\* resources of other patients.
MaxSubmits == 2
MaxSeed == 3

PreExisting ==
    {[id |-> <<"Patient", 1>>,
      resource |-> [resourceType |-> "Patient", identifier |-> <<101>>, refs |-> <<>>]],
     [id |-> <<"Patient", 2>>,
      resource |-> [resourceType |-> "Patient", identifier |-> <<102>>, refs |-> <<>>]],
     [id |-> <<"ServiceRequest", 3>>,
      resource |-> [resourceType |-> "ServiceRequest", identifier |-> <<>>,
                    refs |-> << <<"subject", <<"Patient", 1>>>> >>]]}

InitReplay ==
    /\ program = "part_000"
    /\ run = 1
    /\ pc = "REPLAY"
    /\ error = "none"
    /\ accessToken \in Tokens
    /\ nextUuid \in 1..MaxSeed
    /\ patientId = Undef /\ serviceRequestId = Undef /\ diagnosticReportId = Undef
    /\ report = Report(FALSE, <<>>)
    /\ sent = <<>> /\ recv = <<>> /\ inflight = {}
    /\ store \in SUBSET PreExisting
    /\ nextId = 4
    /\ history = <<>>

ReplaySubmit ==
    /\ pc = "REPLAY"
    /\ Len(sent) < MaxSubmits
    /\ LET req == Request("batch", <<"fhir/R4/", 0>>, Bearer(accessToken),
                          Stringify(ServiceRequestBundle(Urn(nextUuid), nextUuid + 1)))
       IN  \E o \in Orders(Len(req.entry)), rej \in RejectSets(Len(req.entry)) :
              LET x == ExecuteBatch(req.entry, store, nextId, o, rej)
                  data == Body(x.results, "exact", TRUE)
              IN  /\ sent' = Append(sent, req)
                  /\ recv' = Append(recv, [kind |-> "parsed", data |-> data])
                  /\ store' = x.store
                  /\ nextId' = x.nextId
                  /\ patientId' = Entry(data, 0).location
                  /\ serviceRequestId' = Entry(data, 1).location
    /\ UNCHANGED <<program, run, pc, error, accessToken, nextUuid,
                   diagnosticReportId, report, inflight, history>>

NextReplay == ReplaySubmit

SpecReplay == InitReplay /\ [][NextReplay]_vars

\* Two runs of main in flight in one process: main() of index.js:154 and main()
\* of index.js:643.  Both have been called, so both token requests are out.
\* accessToken, the source of UUIDs and the remote system are shared; the
\* run whose continuation executes is in the variables of main, the other one
\* waits in history.
TokenRequest == Request("token", <<"oauth2/token", 0>>, Undef, <<>>)

Started(prog, n) ==
    [program |-> prog, run |-> n, pc |-> "AUTHENTICATING", error |-> "none",
     patientId |-> Undef, serviceRequestId |-> Undef, diagnosticReportId |-> Undef,
     report |-> Report(FALSE, <<>>), sent |-> <<TokenRequest>>, recv |-> <<>>,
     inflight |-> {TokenRequest}]

InitConcurrent ==
    /\ program = "index_1"
    /\ run = 1
    /\ pc = "AUTHENTICATING"
    /\ error = "none"
    /\ accessToken = Null
    /\ nextUuid = 1
    /\ patientId = Undef /\ serviceRequestId = Undef /\ diagnosticReportId = Undef
    /\ report = Report(FALSE, <<>>)
    /\ sent = <<TokenRequest>> /\ recv = <<>> /\ inflight = {TokenRequest}
    /\ store = {} /\ nextId = 1
    /\ history = <<Started("index_2", 2)>>

\* The run in the variables of main is suspended at an await (or has ended)
\* and the event loop runs the continuation of the other one.
Switch ==
    /\ Len(history) = 1
    /\ inflight # {} \/ pc \in {"DONE", "FAILED"}
    /\ history[1].pc \notin {"DONE", "FAILED"}
    /\ program' = history[1].program
    /\ run' = history[1].run
    /\ pc' = history[1].pc
    /\ error' = history[1].error
    /\ patientId' = history[1].patientId
    /\ serviceRequestId' = history[1].serviceRequestId
    /\ diagnosticReportId' = history[1].diagnosticReportId
    /\ report' = history[1].report
    /\ sent' = history[1].sent
    /\ recv' = history[1].recv
    /\ inflight' = history[1].inflight
    /\ history' = <<[program |-> program, run |-> run, pc |-> pc, error |-> error,
                     patientId |-> patientId, serviceRequestId |-> serviceRequestId,
                     diagnosticReportId |-> diagnosticReportId, report |-> report,
                     sent |-> sent, recv |-> recv, inflight |-> inflight]>>
    /\ UNCHANGED <<accessToken, nextUuid, store, nextId>>

NextConcurrent ==
    \/ authenticate_response
    \/ createServiceRequest_fetch
    \/ createServiceRequest_response
    \/ createReport_fetch
    \/ createReport_response
    \/ readResults_fetch1
    \/ readResults_response1
    \/ readResults_fetch2
    \/ readResults_response2
    \/ Switch

SpecConcurrent == InitConcurrent /\ [][NextConcurrent]_vars

\* A remote system that accepts a request and never answers it.  Every fetch
\* of the source passes method, headers and body only, no timeout and no
\* signal, so the await on it never settles and main stays where it is.
NoAnswer ==
    /\ pc \in {"AUTHENTICATING", "BATCH1_SUBMITTED", "BATCH2_SUBMITTED",
               "READ_SUBMITTED", "READBACK_SUBMITTED"}
    /\ pc' = "SUSPENDED"
    /\ UNCHANGED <<program, run, error, accessToken, nextUuid, patientId,
                   serviceRequestId, diagnosticReportId, report, sent, recv,
                   inflight, store, nextId, history>>

NextLive == Next \/ NoAnswer

\* Every step that can be taken is taken: the event loop runs every
\* continuation that is ready and a remote system that answers does answer.
SpecLive == Init /\ [][NextLive]_vars /\ WF_vars(NextLive)

\* =================================================================== claims
\* Which stage of the workflow a request belongs to, read off the request.
Stage(req) ==
    IF req.kind = "token" THEN "token"
    ELSE IF req.kind = "read" THEN "read"
    ELSE IF \E i \in DOMAIN req.entry : req.entry[i].resource.resourceType = "Patient"
    THEN "batch1"
    ELSE IF \E i \in DOMAIN req.entry : req.entry[i].request.method = "POST"
    THEN "batch2"
    ELSE "readback"

StageOrder == <<"token", "batch1", "batch2", "read", "readback">>

\* Position (from 1) of the entry of a request that creates an entity of a type.
IndexOf(req, type) ==
    CHOOSE i \in DOMAIN req.entry : req.entry[i].resource.resourceType = type

\* The response to the i-th request was handled without main being rejected.
Resolved(i) == Len(recv) >= i /\ (pc # "FAILED" \/ Len(recv) > i)

\* C1: the requests of a run are issued in the order token, first create batch,
\* second create batch, read of the report, read-back batch, none skipped or
\* repeated, each only after the response to the previous one has arrived, so
\* that at most one request is in flight.
C1_FixedOrderOneInFlight ==
    /\ Len(sent) <= Len(StageOrder)
    /\ \A i \in DOMAIN sent : Stage(sent[i]) = StageOrder[i]
    /\ Cardinality(inflight) <= 1
    /\ Len(sent) - Len(recv) = Cardinality(inflight)

C1_Witness ==
    /\ pc = "DONE"
    /\ Len(sent) = 5
    /\ Len(recv) = 5

\* C2: when the remote system reports the create entry of an entity whose
\* identifier the workflow uses (Patient, ServiceRequest, DiagnosticReport) as
\* failed, no identifier is recorded for it, the run is FAILED and nothing is
\* sent after that batch.
EntryFailed(i, type) ==
    /\ Len(recv) >= i
    /\ sent[i].kind = "batch"
    /\ recv[i].kind = "parsed"
    /\ \E k \in DOMAIN sent[i].entry :
          /\ sent[i].entry[k].resource.resourceType = type
          /\ Has(recv[i].data, k - 1)
          /\ recv[i].data.entry[k].text = "error"

C2_FailedEntryFailsRun ==
    /\ EntryFailed(2, "Patient") =>
          patientId = Undef /\ pc = "FAILED" /\ Len(sent) = 2
    /\ EntryFailed(2, "ServiceRequest") =>
          serviceRequestId = Undef /\ pc = "FAILED" /\ Len(sent) = 2
    /\ EntryFailed(3, "DiagnosticReport") =>
          diagnosticReportId = Undef /\ pc = "FAILED" /\ Len(sent) = 3

\* C3: a batch response that is a Bundle with a number of entries other than
\* the request's makes the run fail; nothing is sent after it.
ShapeMismatch(i) ==
    /\ Len(recv) >= i
    /\ sent[i].kind = "batch"
    /\ recv[i].kind = "parsed"
    /\ recv[i].data.hasEntry
    /\ Len(recv[i].data.entry) # Len(sent[i].entry)

C3_ShapeMismatchFailsRun ==
    \A i \in DOMAIN recv : ShapeMismatch(i) => pc = "FAILED" /\ Len(sent) = i

\* C4: the identifiers main holds are the locations of the response entries at
\* the positions of the request entries that create the Patient, the
\* ServiceRequest and the DiagnosticReport, whatever order the server
\* processed the entries in.
C4_PositionalIdentifiers ==
    /\ Resolved(2) =>
          /\ IndexOf(sent[2], "Patient") = 1
          /\ IndexOf(sent[2], "ServiceRequest") = 2
          /\ patientId = recv[2].data.entry[IndexOf(sent[2], "Patient")].location
          /\ serviceRequestId =
                recv[2].data.entry[IndexOf(sent[2], "ServiceRequest")].location
    /\ Resolved(3) =>
          diagnosticReportId =
             recv[3].data.entry[IndexOf(sent[3], "DiagnosticReport")].location

\* the report was created before an Observation of its batch (reverse order)
C4_Witness ==
    /\ Resolved(3)
    /\ diagnosticReportId # Undef
    /\ patientId # Undef
    /\ \E r \in store : /\ r.resource.resourceType = "Observation"
                        /\ r.id[2] > diagnosticReportId[2]

\* C7: when both entries of the first batch succeed, both are Created, the
\* Patient's local id resolves to the permanent identifier of the Patient entry
\* and the stored ServiceRequest's subject is that identifier, not the local id.
BothSucceeded ==
    /\ Resolved(2)
    /\ Entry(recv[2].data, 0).location # Undef
    /\ Entry(recv[2].data, 1).location # Undef

C7_LocalIdResolved ==
    BothSucceeded =>
        /\ Entry(recv[2].data, 0).text = "Created"
        /\ Entry(recv[2].data, 1).text = "Created"
        /\ patientId = Entry(recv[2].data, 0).location
        /\ patientId[1] = "Patient" /\ IsPermanent(patientId)
        /\ \E r \in store : r.id = patientId /\ r.resource.resourceType = "Patient"
        /\ \E r \in store : r.id = serviceRequestId
        /\ \A r \in store : r.id = serviceRequestId =>
              /\ r.resource.resourceType = "ServiceRequest"
              /\ r.resource.refs = << <<"subject", patientId>> >>
              /\ ~IsLocal(r.resource.refs[1][2])

C7_Witness ==
    /\ BothSucceeded
    /\ \E r \in store : r.id = serviceRequestId

\* C8: the read-back batch has one GET entry per element of the report's
\* result list, entry i addressed to the reference of element i.
C8_ReadBackMirrorsResult ==
    Len(sent) >= 5 =>
        /\ report.hasResult
        /\ Len(sent[5].entry) = Len(report.result)
        /\ \A i \in DOMAIN sent[5].entry :
              /\ sent[5].entry[i].request.method = "GET"
              /\ sent[5].entry[i].request.url = report.result[i]

C8_Witness ==
    /\ Len(sent) = 5
    /\ Len(report.result) = 2
    /\ report.result[1] # report.result[2]

\* C9: after a non-success token response the run is FAILED with
\* 'Authentication failed.', the access token is still null and the token
\* request is the only request the run ever sent.
AuthRejected == Len(recv) >= 1 /\ recv[1].kind = "parsed" /\ ~recv[1].ok

C9_AuthFailureStopsRun ==
    AuthRejected =>
        /\ pc = "FAILED"
        /\ error = "Authentication failed."
        /\ accessToken = Null
        /\ Len(sent) = 1

C9_Witness == AuthRejected /\ pc = "FAILED"

\* C10: when the response to a batch or read request cannot be obtained or
\* parsed, the run is FAILED, that request is the last one sent and main holds
\* no identifier from it.
NoResponse(i) ==
    /\ Len(recv) >= i
    /\ sent[i].kind \in {"batch", "read"}
    /\ recv[i].kind \in {"transport", "unparseable"}

C10_TransportFailureFailsBatch ==
    \A i \in DOMAIN recv : NoResponse(i) =>
        /\ pc = "FAILED"
        /\ error = "FetchError"
        /\ Len(sent) = i
        /\ i = 2 => patientId = Undef /\ serviceRequestId = Undef
        /\ i = 3 => diagnosticReportId = Undef

C10_Witness ==
    /\ NoResponse(3)
    /\ patientId # Undef
    /\ store # {}

\* C5: of the submissions of the same conditional Patient create that
\* succeed, the first is Created and every later one is MatchedExisting ("OK")
\* with the identifier of the first, and the remote system holds exactly one
\* Patient matching the predicate.
PatientSucceeded == {i \in DOMAIN recv : Entry(recv[i].data, 0).location # Undef}

FirstSucceeded == CHOOSE i \in PatientSucceeded : \A j \in PatientSucceeded : i <= j

MatchingPatients ==
    Matches(store, Collection("Patient"), sent[1].entry[1].request.ifNoneExist)

C6_RerunReusesPatient ==
    \A h \in DOMAIN history :
        (Resolved(2) /\ patientId # Undef /\ history[h].patientId # Undef) =>
            /\ patientId = history[h].patientId
            /\ Entry(recv[2].data, 0).text = "OK"

\* C11: with two runs in flight in one process, every batch and read request
\* of a run carries the token that run's own authenticate call received.
OwnToken(s, r) ==
    \A i \in DOMAIN s :
        s[i].kind \in {"batch", "read"} => s[i].authorization = Bearer(r[1].access_token)

C11_RunKeepsOwnToken ==
    /\ OwnToken(sent, recv)
    /\ \A h \in DOMAIN history : OwnToken(history[h].sent, history[h].recv)

\* C12: every run eventually reaches DONE or FAILED, also when the remote
\* system stops answering.
C12_RunTerminates == <>(pc \in {"DONE", "FAILED"})

\* C13: in every create batch the run builds, a reference to a local id is the
\* fullUrl of an entry at an earlier position of that batch, and every other
\* reference is a permanent identifier that the response to an earlier batch
\* located. The batch createReport builds is read before JSON.stringify.
Located(i, ref) ==
    \E j \in 1..(i - 1) :
        /\ sent[j].kind = "batch"
        /\ recv[j].kind = "parsed"
        /\ recv[j].data.hasEntry
        /\ \E k \in DOMAIN recv[j].data.entry : recv[j].data.entry[k].location = ref

WellReferenced(entry, i) ==
    \A k \in DOMAIN entry : entry[k].request.method = "POST" =>
        \A n \in DOMAIN entry[k].resource.refs :
            LET ref == entry[k].resource.refs[n][2]
            IN  IF IsLocal(ref)
                THEN \E e \in 1..(k - 1) : entry[e].fullUrl = ref
                ELSE IsPermanent(ref) /\ Located(i, ref)

C13_ReferencesResolvable ==
    /\ \A i \in DOMAIN sent : sent[i].kind = "batch" => WellReferenced(sent[i].entry, i)
    /\ pc = "BATCH1_RESOLVED" =>
          WellReferenced(ReportBundle(program, patientId, serviceRequestId, nextUuid),
                         Len(sent) + 1)

\* C14: a local id is the fullUrl of at most one entry of the run's batches,
\* and no batch sent after the batch that created it mentions it, as a
\* fullUrl, as a reference or as the target of a read.
LocalIdsOf(req) ==
    {req.entry[k].fullUrl : k \in {x \in DOMAIN req.entry : IsLocal(req.entry[x].fullUrl)}}

Mentions(req) ==
    {req.entry[k].fullUrl : k \in DOMAIN req.entry}
    \cup {req.entry[k].request.url : k \in DOMAIN req.entry}
    \cup UNION {{req.entry[k].resource.refs[n][2] :
                    n \in DOMAIN req.entry[k].resource.refs} : k \in DOMAIN req.entry}

C14_LocalIdsNotReused ==
    /\ \A i, j \in DOMAIN sent : \A k \in DOMAIN sent[i].entry, l \in DOMAIN sent[j].entry :
          (IsLocal(sent[i].entry[k].fullUrl)
             /\ sent[i].entry[k].fullUrl = sent[j].entry[l].fullUrl)
          => (i = j /\ k = l)
    /\ \A i, j \in DOMAIN sent : i < j => LocalIdsOf(sent[i]) \cap Mentions(sent[j]) = {}

\* C15: the access token is null until authenticate has succeeded, from then
\* on it is the value authenticate assigned, and every batch and read request
\* carries it as its bearer token.
AuthSucceeded == Len(recv) >= 1 /\ recv[1].kind = "parsed" /\ recv[1].ok

C15_TokenWrittenOnceByAuthenticate ==
    /\ ~AuthSucceeded => accessToken = Null
    /\ AuthSucceeded => accessToken = recv[1].access_token
    /\ \A i \in DOMAIN sent : sent[i].kind \in {"batch", "read"} =>
          /\ i > 1
          /\ AuthSucceeded
          /\ sent[i].authorization = Bearer(accessToken)
          /\ sent[i].authorization # Bearer(Null)

C15_Witness ==
    /\ Len(sent) = 5
    /\ IsToken(accessToken)
    /\ \A i \in 2..5 : sent[i].authorization = Bearer(accessToken)

\* C16: in every create entry sent, request.url names the resourceType of the
\* entry's resource.
C16_UrlNamesResourceType ==
    \A i \in DOMAIN sent : \A k \in DOMAIN sent[i].entry :
        sent[i].entry[k].request.method = "POST" =>
            sent[i].entry[k].request.url = Collection(sent[i].entry[k].resource.resourceType)

====
